---- MODULE Spec2Model ----
(***************************************************************************)
(* A model of actix_friendly_json_extractor (src/src/lib.rs): the Json<T>  *)
(* extractor.  from_request takes the request payload, awaits the buffered *)
(* body, runs serde_path_to_error::deserialize over a                      *)
(* serde_json::Deserializer::from_slice of the bytes, and maps both        *)
(* failure kinds to ErrorBadRequest.                                       *)
(*                                                                         *)
(* The body is modelled as a sequence of JSON tokens (whitespace carries   *)
(* no information for the deserializer and is left out).  The decoder is   *)
(* the type-directed streaming descent that lib.rs:45-48 invokes: serde's  *)
(* derived Deserialize for T driving serde_json's Deserializer, wrapped by *)
(* serde_path_to_error's path tracking.  serde_json's " at line L column   *)
(* C" suffix of an error's Display is not modelled, and the backquotes of  *)
(* its messages are written as apostrophes.                                *)
(***************************************************************************)
EXTENDS Integers, Sequences, FiniteSets, TLC

(***************************************************************************)
(* Bounds of the model.                                                    *)
(***************************************************************************)
MaxItems == 2
MaxPolls == 1

(***************************************************************************)
(* JSON documents, as serde_json::json! builds them (ground truth trees).  *)
(***************************************************************************)
JStr(s) == [k |-> "str", s |-> s, n |-> 0, xs |-> <<>>]
JNum(n) == [k |-> "num", s |-> "", n |-> n, xs |-> <<>>]
JArr(xs) == [k |-> "arr", s |-> "", n |-> 0, xs |-> xs]
JObj(ms) == [k |-> "obj", s |-> "", n |-> 0, xs |-> ms]
Member(key, val) == [key |-> key, val |-> val]

(***************************************************************************)
(* Tokens of the body text.  "junk" is a byte that starts no JSON value.   *)
(***************************************************************************)
Tok(t) == [t |-> t, s |-> "", n |-> 0]
TStr(s) == [t |-> "str", s |-> s, n |-> 0]
TNum(n) == [t |-> "num", s |-> "", n |-> n]

RECURSIVE Tokens(_)
RECURSIVE TokensOfList(_, _)
RECURSIVE TokensOfMembers(_, _)
\* serde_json::to_vec of a document (TestRequest::set_json).
Tokens(doc) ==
    CASE doc.k = "str" -> <<TStr(doc.s)>>
      [] doc.k = "num" -> <<TNum(doc.n)>>
      [] doc.k = "arr" -> <<Tok("[")>> \o TokensOfList(doc.xs, 1) \o <<Tok("]")>>
      [] doc.k = "obj" -> <<Tok("{")>> \o TokensOfMembers(doc.xs, 1) \o <<Tok("}")>>

TokensOfList(xs, i) ==
    IF i > Len(xs) THEN <<>>
    ELSE (IF i > 1 THEN <<Tok(",")>> ELSE <<>>)
         \o Tokens(xs[i]) \o TokensOfList(xs, i + 1)

TokensOfMembers(ms, i) ==
    IF i > Len(ms) THEN <<>>
    ELSE (IF i > 1 THEN <<Tok(",")>> ELSE <<>>)
         \o <<TStr(ms[i].key), Tok(":")>> \o Tokens(ms[i].val)
         \o TokensOfMembers(ms, i + 1)

(***************************************************************************)
(* Target shapes T (types implementing DeserializeOwned).                  *)
(***************************************************************************)
TString == [k |-> "String"]
TU32 == [k |-> "u32"]
TI32 == [k |-> "i32"]
TVec(elem) == [k |-> "vec", elem |-> elem]
TStruct(name, fields) == [k |-> "struct", name |-> name, fields |-> fields]
Field(name, ty) == [name |-> name, ty |-> ty]

\* struct TestData { name: String, age: u32 }
TestData == TStruct("TestData", <<Field("name", TString), Field("age", TU32)>>)
\* struct NestedData { value: i32 }
NestedData == TStruct("NestedData", <<Field("value", TI32)>>)
\* A shape nesting the two test structs through a field and a sequence.
Envelope ==
    TStruct("Envelope", <<Field("data", TestData), Field("items", TVec(NestedData))>>)

(***************************************************************************)
(* Typed Rust values.                                                      *)
(***************************************************************************)
VStr(s) == [k |-> "String", s |-> s, n |-> 0, xs |-> <<>>]
VNum(n) == [k |-> "int", s |-> "", n |-> n, xs |-> <<>>]
VVec(xs) == [k |-> "vec", s |-> "", n |-> 0, xs |-> xs]
VStruct(name, fs) == [k |-> "struct", s |-> name, n |-> 0, xs |-> fs]
NoVal == [k |-> "none", s |-> "", n |-> 0, xs |-> <<>>]

(***************************************************************************)
(* serde_path_to_error::Path and its Display.                              *)
(***************************************************************************)
SegMap(key) == [seg |-> "map", key |-> key, index |-> 0]
SegSeq(i) == [seg |-> "seq", key |-> "", index |-> i]

RECURSIVE RenderSegments(_, _)
RenderSegments(path, i) ==
    IF i > Len(path) THEN ""
    ELSE (IF path[i].seg = "seq"
          THEN "[" \o ToString(path[i].index) \o "]"
          ELSE (IF i > 1 THEN "." ELSE "") \o path[i].key)
         \o RenderSegments(path, i + 1)

\* A Display that writes nothing for the empty path.
RenderPathBlankRoot(path) == RenderSegments(path, 1)

\* impl Display for Path: an empty path is written as ".".
RenderPath(path) == IF path = <<>> THEN "." ELSE RenderSegments(path, 1)

(***************************************************************************)
(* serde_json error codes, by serde_json::error::Category.                 *)
(***************************************************************************)
NoCause == [cat |-> "none", msg |-> ""]
Syntax(msg) == [cat |-> "syntax", msg |-> msg]
Eof(msg) == [cat |-> "eof", msg |-> msg]
Data(msg) == [cat |-> "data", msg |-> msg]

EofWhileParsingValue == Eof("EOF while parsing a value")
EofWhileParsingList == Eof("EOF while parsing a list")
EofWhileParsingObject == Eof("EOF while parsing an object")
ExpectedSomeValue == Syntax("expected value")
ExpectedColon == Syntax("expected ':'")
ExpectedListCommaOrEnd == Syntax("expected ',' or ']'")
ExpectedObjectCommaOrEnd == Syntax("expected ',' or '}'")
KeyMustBeAString == Syntax("key must be a string")
TrailingComma == Syntax("trailing comma")
TrailingCharacters == Syntax("trailing characters")

InvalidType(unexp, exp) == Data("invalid type: " \o unexp \o ", expected " \o exp)
InvalidValue(unexp, exp) == Data("invalid value: " \o unexp \o ", expected " \o exp)
InvalidLength(len, exp) == Data("invalid length " \o ToString(len) \o ", expected " \o exp)
MissingField(name) == Data("missing field '" \o name \o "'")
DuplicateField(name) == Data("duplicate field '" \o name \o "'")

UnexpStr(s) == "string \"" \o s \o "\""
UnexpInt(n) == "integer '" \o ToString(n) \o "'"

Expecting(sch) ==
    CASE sch.k = "String" -> "a string"
      [] sch.k = "u32" -> "u32"
      [] sch.k = "i32" -> "i32"
      [] sch.k = "vec" -> "a sequence"
      [] sch.k = "struct" -> "struct " \o sch.name

(***************************************************************************)
(* Results of the descent: a value and the next position, or the path and  *)
(* cause recorded by the first Track::trigger.                             *)
(***************************************************************************)
Good(v, pos) ==
    [ok |-> TRUE, some |-> TRUE, val |-> v, pos |-> pos, path |-> <<>>, cause |-> NoCause]
Nothing(pos) ==
    [ok |-> TRUE, some |-> FALSE, val |-> NoVal, pos |-> pos, path |-> <<>>, cause |-> NoCause]
Bad(path, cause) ==
    [ok |-> FALSE, some |-> FALSE, val |-> NoVal, pos |-> 0, path |-> path, cause |-> cause]

Peek(toks, pos) == IF pos > Len(toks) THEN "eof" ELSE toks[pos].t

(***************************************************************************)
(* serde_json::Deserializer: the scalar entry points.                      *)
(***************************************************************************)
\* Deserializer::peek_invalid_type: the error for a value of the wrong kind.
PeekInvalidType(toks, pos, exp) ==
    LET t == Peek(toks, pos) IN
    CASE t = "str" -> InvalidType(UnexpStr(toks[pos].s), exp)
      [] t = "num" -> InvalidType(UnexpInt(toks[pos].n), exp)
      [] t = "[" -> InvalidType("sequence", exp)
      [] t = "{" -> InvalidType("map", exp)
      [] OTHER -> ExpectedSomeValue

\* deserialize_string, visited by String's visitor.
DeString(toks, pos, chain) ==
    LET t == Peek(toks, pos) IN
    CASE t = "eof" -> Bad(chain, EofWhileParsingValue)
      [] t = "str" -> Good(VStr(toks[pos].s), pos + 1)
      [] OTHER -> Bad(chain, PeekInvalidType(toks, pos, "a string"))

\* The range check of the primitive visitors of u32 and i32.  The numbers of
\* the model are TLC's 32-bit integers: each fits i32 and is below 2^32, so
\* the only number a visitor can refuse is a negative one for u32.
InRange(sch, n) == IF sch.k = "u32" THEN n >= 0 ELSE TRUE

\* An integer entry point whose errors carry no path: what the caller sees
\* when the error is located where it is observed, not where it was raised.
DeIntegerAtRoot(sch, toks, pos, chain) ==
    LET t == Peek(toks, pos) IN
    CASE t = "eof" -> Bad(<<>>, EofWhileParsingValue)
      [] t = "num" ->
           IF InRange(sch, toks[pos].n)
           THEN Good(VNum(toks[pos].n), pos + 1)
           ELSE Bad(<<>>, InvalidValue(UnexpInt(toks[pos].n), Expecting(sch)))
      [] OTHER -> Bad(<<>>, PeekInvalidType(toks, pos, Expecting(sch)))

\* deserialize_u32 / deserialize_i32 (the deserialize_number macro).
DeInteger(sch, toks, pos, chain) ==
    LET t == Peek(toks, pos) IN
    CASE t = "eof" -> Bad(chain, EofWhileParsingValue)
      [] t = "num" ->
           IF InRange(sch, toks[pos].n)
           THEN Good(VNum(toks[pos].n), pos + 1)
           ELSE Bad(chain, InvalidValue(UnexpInt(toks[pos].n), Expecting(sch)))
      [] OTHER -> Bad(chain, PeekInvalidType(toks, pos, Expecting(sch)))

(***************************************************************************)
(* Deserializer::ignore_value, which serde::de::IgnoredAny drives for the  *)
(* value of a key that names no field of the struct.                       *)
(***************************************************************************)
RECURSIVE IgnoreValue(_, _)
RECURSIVE IgnoreList(_, _, _)
RECURSIVE IgnoreMembers(_, _, _)
RECURSIVE IgnoreMember(_, _)
IgnoreValue(toks, pos) ==
    LET t == Peek(toks, pos) IN
    CASE t = "eof" -> Bad(<<>>, EofWhileParsingValue)
      [] t \in {"str", "num"} -> Good(NoVal, pos + 1)
      [] t = "[" -> IgnoreList(toks, pos + 1, FALSE)
      [] t = "{" -> IgnoreMembers(toks, pos + 1, FALSE)
      [] OTHER -> Bad(<<>>, ExpectedSomeValue)

IgnoreList(toks, pos, acceptComma) ==
    LET t == Peek(toks, pos)
        next == IgnoreValue(toks, IF acceptComma THEN pos + 1 ELSE pos)
    IN
    CASE t = "]" -> Good(NoVal, pos + 1)
      [] t = "eof" -> Bad(<<>>, EofWhileParsingList)
      [] t # "," /\ t # "]" /\ t # "eof" /\ acceptComma -> Bad(<<>>, ExpectedListCommaOrEnd)
      [] OTHER -> IF next.ok THEN IgnoreList(toks, next.pos, TRUE) ELSE next

IgnoreMembers(toks, pos, acceptComma) ==
    LET t == Peek(toks, pos) IN
    CASE t = "}" -> Good(NoVal, pos + 1)
      [] t = "eof" -> Bad(<<>>, EofWhileParsingObject)
      [] t # "," /\ t # "}" /\ t # "eof" /\ acceptComma -> Bad(<<>>, ExpectedObjectCommaOrEnd)
      [] OTHER -> IgnoreMember(toks, IF acceptComma THEN pos + 1 ELSE pos)

IgnoreMember(toks, pos) ==
    LET key == Peek(toks, pos)
        colon == Peek(toks, pos + 1)
        val == IgnoreValue(toks, pos + 2)
    IN
    CASE key = "eof" -> Bad(<<>>, EofWhileParsingObject)
      [] key # "str" /\ key # "eof" -> Bad(<<>>, KeyMustBeAString)
      [] key = "str" /\ colon = "eof" -> Bad(<<>>, EofWhileParsingObject)
      [] key = "str" /\ colon # ":" /\ colon # "eof" -> Bad(<<>>, ExpectedColon)
      [] OTHER -> IF val.ok THEN IgnoreMembers(toks, val.pos, TRUE) ELSE val

(***************************************************************************)
(* The type-directed descent.  `chain` is serde_path_to_error's Chain of   *)
(* the node being deserialized; an error keeps the path of the first       *)
(* Track::trigger it passes, which is the innermost one.                   *)
(***************************************************************************)
RECURSIVE DeValue(_, _, _, _)
RECURSIVE NextElement(_, _, _, _, _, _)
RECURSIVE VisitSeqStruct(_, _, _, _, _, _)
RECURSIVE VisitSeqVec(_, _, _, _, _, _)
RECURSIVE VisitMapStruct(_, _, _, _, _, _)

\* The index of the field of `sch` named `key`, 0 for an unknown key
\* (the derived __Field visitor's __ignore).
FieldIndex(sch, key) ==
    IF \E i \in 1..Len(sch.fields) : sch.fields[i].name = key
    THEN CHOOSE i \in 1..Len(sch.fields) : sch.fields[i].name = key
    ELSE 0

ExpectingElements(sch) ==
    "struct " \o sch.name \o " with " \o ToString(Len(sch.fields))
    \o (IF Len(sch.fields) = 1 THEN " element" ELSE " elements")

\* serde_json SeqAccess::next_element_seed under the path-tracking SeqAccess:
\* the element is deserialized at Chain::Seq{parent, index}; an error of the
\* list syntax itself is triggered at the parent.
NextElement(sch, toks, pos, first, parent, index) ==
    LET t == Peek(toks, pos)
        t2 == Peek(toks, pos + 1)
        chain == Append(parent, SegSeq(index))
    IN
    CASE t = "]" -> Nothing(pos)
      [] t = "eof" -> Bad(parent, EofWhileParsingList)
      [] t = "," /\ ~first ->
           (CASE t2 = "]" -> Bad(parent, TrailingComma)
              [] t2 = "eof" -> Bad(parent, EofWhileParsingValue)
              [] OTHER -> DeValue(sch, toks, pos + 1, chain))
      [] OTHER ->
           IF first THEN DeValue(sch, toks, pos, chain)
           ELSE Bad(parent, ExpectedListCommaOrEnd)

\* Deserializer::end_seq.
EndSeq(toks, pos, chain, v) ==
    LET t == Peek(toks, pos) IN
    CASE t = "]" -> Good(v, pos + 1)
      [] t = "," ->
           IF Peek(toks, pos + 1) = "]" THEN Bad(chain, TrailingComma)
           ELSE Bad(chain, TrailingCharacters)
      [] t = "eof" -> Bad(chain, EofWhileParsingList)
      [] OTHER -> Bad(chain, TrailingCharacters)

\* Deserializer::end_map.
EndMap(toks, pos, chain, v) ==
    LET t == Peek(toks, pos) IN
    CASE t = "}" -> Good(v, pos + 1)
      [] t = "," -> Bad(chain, TrailingComma)
      [] t = "eof" -> Bad(chain, EofWhileParsingObject)
      [] OTHER -> Bad(chain, TrailingCharacters)

\* The derived visitor's visit_seq: the fields in declaration order.
VisitSeqStruct(sch, toks, pos, chain, i, vals) ==
    IF i > Len(sch.fields) THEN Good(VStruct(sch.name, vals), pos)
    ELSE LET r == NextElement(sch.fields[i].ty, toks, pos, i = 1, chain, i - 1) IN
         CASE ~r.ok -> r
           [] r.ok /\ ~r.some -> Bad(chain, InvalidLength(i - 1, ExpectingElements(sch)))
           [] OTHER -> VisitSeqStruct(sch, toks, r.pos, chain, i + 1, Append(vals, r.val))

\* Vec<T>'s visitor: every element until the list ends.
VisitSeqVec(elem, toks, pos, chain, index, vals) ==
    LET r == NextElement(elem, toks, pos, index = 0, chain, index) IN
    CASE ~r.ok -> r
      [] r.ok /\ ~r.some -> Good(VVec(vals), pos)
      [] OTHER -> VisitSeqVec(elem, toks, r.pos, chain, index + 1, Append(vals, r.val))

\* A next_key_seed that takes the end of the input for the end of the map.
NextKeyLenient(toks, pos, first, chain) ==
    LET t == Peek(toks, pos)
        at == IF t = "," /\ ~first THEN pos + 1 ELSE pos
        k == Peek(toks, at)
    IN
    CASE t \in {"}", "eof"} -> Nothing(pos)
      [] t \notin {"}", "eof", ","} /\ ~first -> Bad(chain, ExpectedObjectCommaOrEnd)
      [] OTHER ->
           (CASE k = "str" -> Good(VStr(toks[at].s), at + 1)
              [] k = "}" -> Bad(chain, TrailingComma)
              [] k = "eof" -> Bad(chain, EofWhileParsingValue)
              [] OTHER -> Bad(chain, KeyMustBeAString))

\* serde_json MapAccess::next_key_seed: the next key, or the end of the map.
NextKey(toks, pos, first, chain) ==
    LET t == Peek(toks, pos)
        at == IF t = "," /\ ~first THEN pos + 1 ELSE pos
        k == Peek(toks, at)
    IN
    CASE t = "}" -> Nothing(pos)
      [] t = "eof" -> Bad(chain, EofWhileParsingObject)
      [] t \notin {"}", "eof", ","} /\ ~first -> Bad(chain, ExpectedObjectCommaOrEnd)
      [] OTHER ->
           (CASE k = "str" -> Good(VStr(toks[at].s), at + 1)
              [] k = "}" -> Bad(chain, TrailingComma)
              [] k = "eof" -> Bad(chain, EofWhileParsingValue)
              [] OTHER -> Bad(chain, KeyMustBeAString))

\* Deserializer::parse_object_colon, at the start of next_value_seed.
ParseObjectColon(toks, pos) ==
    LET t == Peek(toks, pos) IN
    CASE t = ":" -> Good(NoVal, pos + 1)
      [] t = "eof" -> Bad(<<>>, EofWhileParsingObject)
      [] OTHER -> Bad(<<>>, ExpectedColon)

\* A visitor that never reports a missing field.
NoneMissing(sch, slots) == 0

\* The first field of `sch` that `slots` leaves unset, 0 when none is.
FirstMissing(sch, slots) ==
    IF \E i \in 1..Len(slots) : slots[i] = NoVal
    THEN CHOOSE i \in 1..Len(slots) :
            slots[i] = NoVal /\ \A j \in 1..(i - 1) : slots[j] # NoVal
    ELSE 0

\* The derived visitor's visit_map: keys in document order, a duplicate of a
\* known field rejected, unknown keys ignored, and after the last key the
\* first missing field reported (serde::__private::de::missing_field), at the
\* chain of the struct itself.
VisitMapStruct(sch, toks, pos, chain, first, slots) ==
    LET k == NextKey(toks, pos, first, chain)
        idx == FieldIndex(sch, k.val.s)
        colon == ParseObjectColon(toks, k.pos)
        inner == Append(chain, SegMap(k.val.s))
        v == DeValue(sch.fields[idx].ty, toks, colon.pos, inner)
        skipped == IgnoreValue(toks, colon.pos)
        missing == FirstMissing(sch, slots)
    IN
    CASE ~k.ok -> k
      [] k.ok /\ ~k.some ->
           IF missing # 0 THEN Bad(chain, MissingField(sch.fields[missing].name))
           ELSE Good(VStruct(sch.name, slots), k.pos)
      [] OTHER ->
           (CASE idx # 0 /\ slots[idx] # NoVal -> Bad(chain, DuplicateField(k.val.s))
              [] ~(idx # 0 /\ slots[idx] # NoVal) /\ ~colon.ok -> Bad(chain, colon.cause)
              [] OTHER ->
                   IF idx # 0
                   THEN (IF v.ok
                         THEN VisitMapStruct(sch, toks, v.pos, chain, FALSE,
                                             [slots EXCEPT ![idx] = v.val])
                         ELSE v)
                   ELSE (IF skipped.ok
                         THEN VisitMapStruct(sch, toks, skipped.pos, chain, FALSE, slots)
                         ELSE Bad(inner, skipped.cause)))

\* deserialize_struct: a map or, positionally, a sequence.
DeStruct(sch, toks, pos, chain) ==
    LET t == Peek(toks, pos)
        asSeq == VisitSeqStruct(sch, toks, pos + 1, chain, 1, <<>>)
        asMap == VisitMapStruct(sch, toks, pos + 1, chain, TRUE,
                                [i \in 1..Len(sch.fields) |-> NoVal])
    IN
    CASE t = "eof" -> Bad(chain, EofWhileParsingValue)
      [] t = "[" -> IF asSeq.ok THEN EndSeq(toks, asSeq.pos, chain, asSeq.val) ELSE asSeq
      [] t = "{" -> IF asMap.ok THEN EndMap(toks, asMap.pos, chain, asMap.val) ELSE asMap
      [] OTHER -> Bad(chain, PeekInvalidType(toks, pos, Expecting(sch)))

\* deserialize_seq, visited by Vec<T>'s visitor.
DeVec(sch, toks, pos, chain) ==
    LET t == Peek(toks, pos)
        r == VisitSeqVec(sch.elem, toks, pos + 1, chain, 0, <<>>)
    IN
    CASE t = "eof" -> Bad(chain, EofWhileParsingValue)
      [] t = "[" -> IF r.ok THEN EndSeq(toks, r.pos, chain, r.val) ELSE r
      [] OTHER -> Bad(chain, PeekInvalidType(toks, pos, Expecting(sch)))

\* <T as Deserialize>::deserialize on the tracked deserializer.
DeValue(sch, toks, pos, chain) ==
    CASE sch.k = "String" -> DeString(toks, pos, chain)
      [] sch.k \in {"u32", "i32"} -> DeInteger(sch, toks, pos, chain)
      [] sch.k = "vec" -> DeVec(sch, toks, pos, chain)
      [] sch.k = "struct" -> DeStruct(sch, toks, pos, chain)

\* serde_path_to_error::deserialize(jd): T::deserialize from the first byte
\* of the slice; Deserializer::end is not called, so what follows the value
\* is not read.
Deserialize(sch, bytes) == DeValue(sch, bytes, 1, <<>>)

\* format!("Invalid JSON at {}: {}", e.path(), e.inner())
DecodeMessage(path, cause) == "Invalid JSON at " \o RenderPath(path) \o ": " \o cause.msg

(***************************************************************************)
(* The requests a client can send: a target shape, a document and what     *)
(* became of its text on the way (left intact, cut short, or followed by   *)
(* one more token).                                                        *)
(***************************************************************************)
Shapes == {TestData, Envelope}

\* Values a client puts at a leaf: the values of the tests and a negative one.
LeafDocs(sch) ==
    CASE sch.k = "String" -> {JStr("Test"), JNum(20)}
      [] sch.k = "u32" -> {JNum(20), JStr("invalid"), JNum(-1)}
      [] sch.k = "i32" -> {JNum(-1), JStr("invalid")}

SeqsUpTo(S, n) == UNION {[1..m -> S] : m \in 0..n}

RECURSIVE DocsOf(_)
RECURSIVE MembersOf(_, _)
\* Documents laid out after `sch`: each field present or absent, each leaf
\* right or wrong, a sequence possibly replaced by a string.
DocsOf(sch) ==
    CASE sch.k \in {"String", "u32", "i32"} -> LeafDocs(sch)
      [] sch.k = "vec" ->
           {JArr(xs) : xs \in SeqsUpTo(DocsOf(sch.elem), MaxItems)} \cup {JStr("Test")}
      [] sch.k = "struct" -> {JObj(ms) : ms \in MembersOf(sch.fields, 1)}

MembersOf(fields, i) ==
    IF i > Len(fields) THEN {<<>>}
    ELSE LET here == {<<>>} \cup {<<Member(fields[i].name, v)>> : v \in DocsOf(fields[i].ty)}
         IN {h \o rest : h \in here, rest \in MembersOf(fields, i + 1)}

Reverse(xs) == [i \in 1..Len(xs) |-> xs[Len(xs) + 1 - i]]

\* The documents of a request: those laid out after `sch` and roots of another
\* kind; for TestData also members in the other order, an unknown member, a
\* repeated member, and the positional (array) form of a struct.
RootDocs(sch) ==
    DocsOf(sch) \cup {JStr("Test"), JArr(<<>>), JNum(20)}
    \cup (IF sch = TestData
          THEN {JObj(Reverse(d.xs)) : d \in {e \in DocsOf(sch) : e.k = "obj"}}
               \cup {JObj(<<Member("extra", JArr(<<JNum(1), JObj(<<>>)>>))>> \o d.xs) :
                       d \in {e \in DocsOf(sch) : e.k = "obj"}}
               \cup {JObj(<<Member("name", JStr("Test")), Member("name", JStr("Test"))>>),
                     JArr(<<JStr("Test"), JNum(20)>>), JArr(<<JNum(20)>>),
                     JArr(<<JStr("Test"), JNum(20), JNum(20)>>)}
          ELSE {})

Tails == <<Tok("}"), TStr("x"), Tok("junk")>>
Intact == [kind |-> "intact", at |-> 0]
Cut(k) == [kind |-> "cut", at |-> k]
Followed(j) == [kind |-> "tail", at |-> j]

DefectsOf(d) ==
    {Intact} \cup {Cut(k) : k \in 0..(Len(Tokens(d)) - 1)} \cup {Followed(j) : j \in 1..Len(Tails)}

\* The body text the client's request carries.
BodyOf(d, defect) ==
    CASE defect.kind = "intact" -> Tokens(d)
      [] defect.kind = "cut" -> SubSeq(Tokens(d), 1, defect.at)
      [] defect.kind = "tail" -> Append(Tokens(d), Tails[defect.at])

(***************************************************************************)
(* The state of one request.                                               *)
(***************************************************************************)
VARIABLES
    T,          \* the target shape of the handler's Json<T> argument
    doc,        \* the document the client serialized
    defect,     \* what became of its text
    payload,    \* the body text of the request
    stream,     \* the payload stream: "open", "complete" or the cause of its failure
    pc,         \* from_request's future: "idle", "suspended", "done", "dropped"
    polls,      \* polls of the future that found the body still pending
    reads,      \* calls of Bytes::from_request (takes of the payload)
    decodes,    \* calls of serde_path_to_error::deserialize
    diag,       \* the serde_path_to_error::Error, when one was built
    result,     \* the future's output: Ok(Json(value)) or Err(ActixError)
    handlerArg, \* the value the handler was invoked with
    response    \* the status of the response, 0 while there is none

vars == <<T, doc, defect, payload, stream, pc, polls, reads, decodes, diag, result,
          handlerArg, response>>

NoDiag == [set |-> FALSE, path |-> <<>>, cause |-> NoCause]
Diag(path, cause) == [set |-> TRUE, path |-> path, cause |-> cause]

\* pub struct Json<T>(pub T), its into_inner and its Deref.
Json(v) == [inner |-> v]
IntoInner(j) == j.inner
Deref(j) == j.inner

NoResult == [tag |-> "none", val |-> NoVal, status |-> 0, msg |-> ""]
\* Ok(Json(value))
OkJson(v) == [tag |-> "ok", val |-> Json(v), status |-> 0, msg |-> ""]
\* actix_web::error::ErrorBadRequest(msg): an error answered with 400.
ErrorBadRequest(msg) == [tag |-> "err", val |-> NoVal, status |-> 400, msg |-> msg]

\* Causes of a PayloadError of the host's body reader.
ReadFailures == {"payload reached size limit", "payload reached EOF before completing"}

Init ==
    /\ T \in Shapes
    /\ doc \in RootDocs(T)
    /\ defect \in DefectsOf(doc)
    /\ payload = BodyOf(doc, defect)
    /\ stream = "open"
    /\ pc = "idle"
    /\ polls = 0
    /\ reads = 0
    /\ decodes = 0
    /\ diag = NoDiag
    /\ result = NoResult
    /\ handlerArg = NoVal
    /\ response = 0

(***************************************************************************)
(* The host's transport: the body arrives in full, or the read fails.      *)
(***************************************************************************)
BodyArrives ==
    /\ stream = "open"
    /\ stream' = "complete"
    /\ UNCHANGED <<T, doc, defect, payload, pc, polls, reads, decodes, diag, result,
                   handlerArg, response>>

StreamFails ==
    /\ stream = "open"
    /\ \E cause \in ReadFailures : stream' = cause
    /\ UNCHANGED <<T, doc, defect, payload, pc, polls, reads, decodes, diag, result,
                   handlerArg, response>>

(***************************************************************************)
(* Json::from_request and the future it returns.                           *)
(***************************************************************************)
\* from_request: Bytes::from_request(req, payload) takes the payload; the
\* boxed future is returned unpolled.
FromRequest ==
    /\ pc = "idle"
    /\ reads' = reads + 1
    /\ pc' = "suspended"
    /\ UNCHANGED <<T, doc, defect, payload, stream, polls, decodes, diag, result,
                   handlerArg, response>>

\* A poll while the body is incomplete: bytes_fut.await stays pending.
PollPending ==
    /\ pc = "suspended"
    /\ stream = "open"
    /\ polls < MaxPolls
    /\ polls' = polls + 1
    /\ UNCHANGED <<T, doc, defect, payload, stream, pc, reads, decodes, diag, result,
                   handlerArg, response>>

\* A read failure after which the decoder is run all the same.
ReadFailedStillDecodes(cause) ==
    /\ result' = ErrorBadRequest("Failed to read request body: " \o cause)
    /\ decodes' = decodes + 1
    /\ UNCHANGED diag

\* A read failure surfaced as a server error (ErrorInternalServerError).
ReadFailedAsServerError(cause) ==
    /\ result' = [tag |-> "err", val |-> NoVal, status |-> 500,
                  msg |-> "Failed to read request body: " \o cause]
    /\ UNCHANGED <<decodes, diag>>

\* The failure of the body read: map_err(..)? returns before the decoder.
ReadFailed(cause) ==
    /\ result' = ErrorBadRequest("Failed to read request body: " \o cause)
    /\ UNCHANGED <<decodes, diag>>

\* A poll that answers a failed read by starting over.
PollFailedRetries ==
    /\ pc = "suspended"
    /\ stream \in ReadFailures
    /\ pc' = "idle"
    /\ UNCHANGED <<T, doc, defect, payload, stream, polls, reads, decodes, diag, result,
                   handlerArg, response>>

\* A poll once the read has failed.
PollFailed ==
    /\ pc = "suspended"
    /\ stream \in ReadFailures
    /\ ReadFailed(stream)
    /\ pc' = "done"
    /\ UNCHANGED <<T, doc, defect, payload, stream, polls, reads, handlerArg, response>>

\* A decode whose failure is swallowed: the handler gets a value anyway.
DecodedSwallowsError(bytes) ==
    LET r == Deserialize(T, bytes) IN
    /\ decodes' = decodes + 1
    /\ diag' = IF r.ok THEN NoDiag ELSE Diag(r.path, r.cause)
    /\ result' = OkJson(r.val)

\* A decode of the buffer short of its last token.
DecodedPrefix(bytes) ==
    LET r == Deserialize(T, SubSeq(bytes, 1, Len(bytes) - 1)) IN
    /\ decodes' = decodes + 1
    /\ diag' = IF r.ok THEN NoDiag ELSE Diag(r.path, r.cause)
    /\ result' = IF r.ok THEN OkJson(r.val)
                 ELSE ErrorBadRequest(DecodeMessage(r.path, r.cause))

\* The rest of the async block once the bytes are there: one deserialize
\* call, its error mapped to ErrorBadRequest, its value wrapped in Json.
Decoded(bytes) ==
    LET r == Deserialize(T, bytes) IN
    /\ decodes' = decodes + 1
    /\ diag' = IF r.ok THEN NoDiag ELSE Diag(r.path, r.cause)
    /\ result' = IF r.ok THEN OkJson(r.val)
                 ELSE ErrorBadRequest(DecodeMessage(r.path, r.cause))

\* A poll once the body is complete.
PollReady ==
    /\ pc = "suspended"
    /\ stream = "complete"
    /\ Decoded(payload)
    /\ pc' = "done"
    /\ UNCHANGED <<T, doc, defect, payload, stream, polls, reads, handlerArg, response>>

\* The host drops the future while it is suspended (cancellation, timeout).
Cancel ==
    /\ pc = "suspended"
    /\ pc' = "dropped"
    /\ UNCHANGED <<T, doc, defect, payload, stream, polls, reads, decodes, diag, result,
                   handlerArg, response>>

\* The host acts on the future's output: Ok(Json(value)) invokes the handler,
\* which answers 200; an Err is answered with the error's status.
Respond ==
    /\ pc = "done"
    /\ response = 0
    /\ handlerArg' = IF result.tag = "ok" THEN result.val ELSE NoVal
    /\ response' = IF result.tag = "ok" THEN 200 ELSE result.status
    /\ UNCHANGED <<T, doc, defect, payload, stream, pc, polls, reads, decodes, diag, result>>

Next ==
    \/ BodyArrives
    \/ StreamFails
    \/ FromRequest
    \/ PollPending
    \/ PollFailed
    \/ PollReady
    \/ Cancel
    \/ Respond

Spec == Init /\ [][Next]_vars

(***************************************************************************)
(* What a document is, read against a shape without any decoder: its flaws *)
(* and, when it has none, the value it denotes.                            *)
(***************************************************************************)
Flaw(kind, path, field) == [kind |-> kind, path |-> path, field |-> field]

LeafMatches(d, sch) ==
    CASE sch.k = "String" -> d.k = "str"
      [] sch.k = "u32" -> d.k = "num" /\ d.n >= 0
      [] sch.k = "i32" -> d.k = "num"

MembersNamed(d, name) == {i \in 1..Len(d.xs) : d.xs[i].key = name}

RECURSIVE Flaws(_, _, _)
Flaws(d, sch, at) ==
    CASE sch.k \in {"String", "u32", "i32"} ->
           IF LeafMatches(d, sch) THEN {}
           ELSE IF d.k \in {"str", "num"} THEN {Flaw("mismatch", at, "")}
           ELSE {Flaw("shape", at, "")}
      [] sch.k = "vec" ->
           IF d.k # "arr" THEN {Flaw("shape", at, "")}
           ELSE UNION {Flaws(d.xs[i], sch.elem, Append(at, SegSeq(i - 1))) : i \in 1..Len(d.xs)}
      [] sch.k = "struct" ->
           IF d.k # "obj" THEN {Flaw("shape", at, "")}
           ELSE UNION {
                    LET f == sch.fields[j]
                        ms == MembersNamed(d, f.name)
                    IN  IF ms = {} THEN {Flaw("missing", at, f.name)}
                        ELSE IF Cardinality(ms) > 1 THEN {Flaw("repeated", at, f.name)}
                        ELSE Flaws(d.xs[CHOOSE i \in ms : TRUE].val, f.ty,
                                   Append(at, SegMap(f.name)))
                    : j \in 1..Len(sch.fields)}
                \cup {Flaw("unknown", at, d.xs[i].key) :
                        i \in {i \in 1..Len(d.xs) : FieldIndex(sch, d.xs[i].key) = 0}}

RECURSIVE ValueOf(_, _)
ValueOf(d, sch) ==
    CASE sch.k = "String" -> VStr(d.s)
      [] sch.k \in {"u32", "i32"} -> VNum(d.n)
      [] sch.k = "vec" -> VVec([i \in 1..Len(d.xs) |-> ValueOf(d.xs[i], sch.elem)])
      [] sch.k = "struct" ->
           VStruct(sch.name,
                   [j \in 1..Len(sch.fields) |->
                       ValueOf(d.xs[CHOOSE i \in MembersNamed(d, sch.fields[j].name) : TRUE].val,
                               sch.fields[j].ty)])

TheFlaws == Flaws(doc, T, <<>>)
OnlyFlaw == CHOOSE f \in TheFlaws : TRUE
\* The future ran to its end on the complete body.
Decided == pc = "done" /\ stream = "complete"
SyntaxCause(c) == c.cat \in {"syntax", "eof"}

(***************************************************************************)
(* The properties.                                                         *)
(***************************************************************************)
\* What the async block returns for the complete body, computed afresh.
Outcome ==
    LET r == Deserialize(T, payload) IN
    IF r.ok THEN OkJson(r.val) ELSE ErrorBadRequest(DecodeMessage(r.path, r.cause))

\* C1: the decoder is invoked only after the body read completed with the
\* full buffer, and on that buffer; after a failed read, or once the future
\* was dropped while suspended, it has not been invoked.
C1_DecoderOnlyAfterFullBody ==
    /\ decodes > 0 => stream = "complete" /\ pc = "done" /\ result = Outcome
    /\ stream \in ReadFailures => decodes = 0 /\ ~diag.set
    /\ pc \in {"idle", "suspended", "dropped"} => decodes = 0 /\ result = NoResult

\* The decoder ran after the future had been polled with the body pending.
C1_Witness == decodes = 1 /\ polls > 0 /\ stream = "complete" /\ pc = "done"

\* C2: every failing request, by a failed read or by a decode diagnostic, is
\* an ErrorBadRequest: status 400 for both kinds, never a success and never a
\* server error.
C2_BothFailuresBadRequest ==
    /\ pc = "done" /\ (stream \in ReadFailures \/ diag.set)
         => result.tag = "err" /\ result.status = 400
    /\ result.tag = "err" => result.status = 400
    /\ response # 0 /\ result.tag = "err" => response = 400

\* A failed read answered with 400.
C2_Witness == stream \in ReadFailures /\ response = 400

\* C3: a completed request holds a Json value or an error, never both; a
\* diagnostic exists only when the decoder ran and failed, it has a cause
\* beside its path, and the handler is given no value on failure.
C3_SuccessXorFailure ==
    /\ pc = "done" => result.tag \in {"ok", "err"}
    /\ result.tag = "ok" =>
         /\ result.val # NoVal /\ IntoInner(result.val) # NoVal
         /\ result.msg = "" /\ result.status = 0 /\ ~diag.set
    /\ result.tag = "err" => result.val = NoVal /\ handlerArg = NoVal /\ result.msg # ""
    /\ diag.set =>
         /\ decodes = 1 /\ ~Deserialize(T, payload).ok
         /\ diag.cause.cat \in {"syntax", "eof", "data"} /\ diag.cause.msg # ""
         /\ result.tag = "err"
    /\ handlerArg # NoVal => result.tag = "ok" /\ handlerArg = result.val

\* A diagnostic below the root, answered without invoking the handler.
C3_Witness ==
    diag.set /\ diag.path # <<>> /\ result.tag = "err" /\ response = 400 /\ handlerArg = NoVal

\* The request of tests::test_error_with_path_info.
InvalidAge == JObj(<<Member("name", JStr("Test")), Member("age", JStr("invalid"))>>)

\* C4: when exactly one leaf of the document mismatches T and nothing else is
\* wrong, the diagnostic's path is the path of that leaf, the cause is a data
\* error and the request is answered 400; {"name":"Test","age":"invalid"}
\* gives the path age.
C4_OneLeafMismatchPath ==
    Decided /\ defect = Intact /\ Cardinality(TheFlaws) = 1 /\ OnlyFlaw.kind = "mismatch"
    => /\ diag.set /\ diag.path = OnlyFlaw.path /\ diag.cause.cat = "data"
       /\ result = ErrorBadRequest(DecodeMessage(OnlyFlaw.path, diag.cause))
       /\ response \in {0, 400}
       /\ T = TestData /\ doc = InvalidAge =>
            /\ diag.path = <<SegMap("age")>>
            /\ result.msg = "Invalid JSON at age: invalid type: string \"invalid\", expected u32"

\* The mismatch is the value of the second element of items.
C4_Witness ==
    /\ Decided /\ defect = Intact /\ Cardinality(TheFlaws) = 1
    /\ OnlyFlaw.kind = "mismatch"
    /\ diag.path = <<SegMap("items"), SegSeq(1), SegMap("value")>>
    /\ result.msg = "Invalid JSON at items[1].value: invalid type: string \"invalid\", expected i32"

OneMissing == Decided /\ defect = Intact /\ Cardinality(TheFlaws) = 1 /\ OnlyFlaw.kind = "missing"

\* C5 as stated: for a document that lacks one required field the diagnostic's
\* path is the path of the missing field itself.
C5_PathOfMissingField ==
    OneMissing => diag.set /\ diag.path = Append(OnlyFlaw.path, SegMap(OnlyFlaw.field))

\* C5, amended: for a document that lacks one required field the diagnostic's
\* path is the path of the containing object, and its cause names the field.
C5_PathOfContainer ==
    OneMissing
    => /\ diag.set /\ diag.path = OnlyFlaw.path
       /\ diag.cause = MissingField(OnlyFlaw.field)
       /\ result = ErrorBadRequest(DecodeMessage(OnlyFlaw.path, diag.cause))

\* A field is missing from an element of items.
C5_Witness ==
    /\ OneMissing /\ OnlyFlaw.path = <<SegMap("items"), SegSeq(0)>>
    /\ result.msg = "Invalid JSON at items[0]: missing field 'value'"

\* The root is a string or a number, or an empty array, where T is a struct.
RootOfWrongKind ==
    Decided /\ defect = Intact /\ (doc.k \in {"str", "num"} \/ doc = JArr(<<>>))

\* C6 as stated: a rejection at the root has the empty path, and the message
\* shows it as an empty or omitted segment.
C6_RootPathOmitted ==
    /\ RootOfWrongKind => diag.set /\ diag.path = <<>>
    /\ diag.set /\ diag.path = <<>> =>
         result.msg \in {"Invalid JSON at : " \o diag.cause.msg,
                         "Invalid JSON at: " \o diag.cause.msg,
                         "Invalid JSON: " \o diag.cause.msg}

\* C6, amended: a rejection at the root has the empty path, and the message
\* shows it as the path ".".
C6_RootPathIsDot ==
    /\ RootOfWrongKind => diag.set /\ diag.path = <<>> /\ diag.cause.cat = "data"
    /\ diag.set /\ diag.path = <<>> =>
         result = ErrorBadRequest("Invalid JSON at .: " \o diag.cause.msg)

\* The body "Test" against a struct.
C6_Witness ==
    /\ RootOfWrongKind /\ doc = JStr("Test")
    /\ result.msg = "Invalid JSON at .: invalid type: string \"Test\", expected struct TestData"

ValidTest == JObj(<<Member("name", JStr("Test")), Member("age", JNum(20))>>)

\* C8: a document that matches T decodes to the value with exactly its
\* fields, which the handler reads unchanged through Deref and into_inner, and
\* the response is a success; {"name":"Test","age":20} gives name = "Test"
\* and age = 20.
C8_RoundTrip ==
    Decided /\ defect = Intact /\ TheFlaws = {}
    => /\ result = OkJson(ValueOf(doc, T)) /\ ~diag.set
       /\ IntoInner(result.val) = ValueOf(doc, T)
       /\ response # 0 =>
            /\ response = 200
            /\ Deref(handlerArg) = ValueOf(doc, T)
            /\ T = TestData /\ doc = ValidTest =>
                 Deref(handlerArg).xs[1].s = "Test" /\ Deref(handlerArg).xs[2].n = 20

\* A matching Envelope with two items reached the handler.
C8_Witness ==
    /\ Decided /\ defect = Intact /\ TheFlaws = {} /\ response = 200
    /\ T = Envelope /\ Len(Deref(handlerArg).xs[2].xs) = 2

\* C9: the payload is taken once, the decoder runs at most once, and once the
\* future holds an error nothing is read or decoded again and the error stays.
C9_FailureIsTerminal ==
    /\ [](reads <= 1 /\ decodes <= 1 /\ (pc # "idle" => reads = 1))
    /\ [][result.tag = "err" =>
            reads' = reads /\ decodes' = decodes /\ result' = result /\ pc' = "done"]_vars

\* A decode failure that has been answered.
C9_Witness == result.tag = "err" /\ diag.set /\ reads = 1 /\ decodes = 1 /\ response = 400

\* C10: a body that is a document matching T followed by one more token is
\* rejected with a diagnostic.
C10_TrailingRejected ==
    Decided /\ defect.kind = "tail" /\ TheFlaws = {} => diag.set /\ result.tag = "err"

====
